---- MODULE Spec2Model ----
(***************************************************************************)
(* Model of aws-cft/cfngen.py: the placeholder locator (match_placeholder),*)
(* the placeholder expander (process_placeholder), the line-stream loop    *)
(* (generate_processed_content) and the driver (process_templates).        *)
(*                                                                         *)
(* A Python str is a sequence of one-character strings; a file is a        *)
(* sequence of lines as list(file) yields them (every line but possibly    *)
(* the last ends with "\n", no line is empty).                             *)
(***************************************************************************)
EXTENDS Integers, Sequences, FiniteSets, TLC

VARIABLES
    files,            \* SOURCE_DIR: file name -> list of lines (DOMAIN = the files that exist)
    target_file,      \* text of TARGET_DIR/template.yaml
    saved,            \* number of calls of save_yaml_template
    pc,               \* position in process_templates
    yaml_content,     \* lines of the template, as read
    idx,              \* lines of yaml_content consumed by the loop
    processed_lines,  \* generate_processed_content's accumulator
    raised,           \* the exception that left process_templates, or "none"
    reads,            \* names handed to read_file_content by process_placeholder, in order
    scanned,          \* lines handed to match_placeholder, in order
    last              \* the last loop iteration: its line and what it produced

vars == <<files, target_file, saved, pc, yaml_content, idx, processed_lines,
          raised, reads, scanned, last>>

-----------------------------------------------------------------------------
(* Bounds of the model *)

MaxLines == 2       \* lines of a template
MaxFileLines == 2   \* lines of a referenced file drawn from FileLines

(* Program constants *)

INDENTATION_SIZE == 2

-----------------------------------------------------------------------------
(* Characters and strings *)

Q == "\""
NL == "\n"

WhiteSpace == {" ", "\t", "\n", "\r", "\f"}

LowerCase == <<"a","b","c","d","e","f","g","h","i","j","k","l","m",
               "n","o","p","q","r","s","t","u","v","w","x","y","z">>
UpperCase == <<"A","B","C","D","E","F","G","H","I","J","K","L","M",
               "N","O","P","Q","R","S","T","U","V","W","X","Y","Z">>
Digits == {"0","1","2","3","4","5","6","7","8","9"}

WordChars == {LowerCase[i] : i \in 1..26} \cup {UpperCase[i] : i \in 1..26}
             \cup Digits \cup {"_"}

Max(S) == CHOOSE x \in S : \A y \in S : y <= x
Min(S) == CHOOSE x \in S : \A y \in S : x <= y

At(s, j) == IF j \in 1..Len(s) THEN s[j] ELSE ""

Spaces(n) == [j \in 1..n |-> " "]

RECURSIVE Concat(_)
Concat(ls) == IF ls = <<>> THEN <<>> ELSE Head(ls) \o Concat(Tail(ls))

\* number of consecutive characters of s, from position p on, that are in C
RECURSIVE RunIn(_, _, _)
RunIn(s, p, C) ==
    IF p > Len(s) \/ s[p] \notin C THEN 0 ELSE 1 + RunIn(s, p + 1, C)

\* number of consecutive characters of s, from position p on, that are not in C
RECURSIVE RunNotIn(_, _, _)
RunNotIn(s, p, C) ==
    IF p > Len(s) \/ s[p] \in C THEN 0 ELSE 1 + RunNotIn(s, p + 1, C)

\* str.lower() on one character
LowerChar(c) ==
    IF \E i \in 1..26 : UpperCase[i] = c
    THEN LowerCase[CHOOSE i \in 1..26 : UpperCase[i] = c]
    ELSE c

Lower(s) == [j \in 1..Len(s) |-> LowerChar(s[j])]

\* str.strip() == "" / not str.lstrip()
IsBlank(s) == \A j \in 1..Len(s) : s[j] \in WhiteSpace

\* len(s) - len(s.lstrip())
LeadingWhiteSpace(s) == RunIn(s, 1, WhiteSpace)

EndsWith(s, t) ==
    /\ Len(t) <= Len(s)
    /\ SubSeq(s, Len(s) - Len(t) + 1, Len(s)) = t

\* positions at which old occurs in s
Occurrences(s, old) ==
    {j \in 1..(Len(s) - Len(old) + 1) : SubSeq(s, j, j + Len(old) - 1) = old}

\* str.replace(old, new): every non-overlapping occurrence, left to right
\* (old is never empty where the program calls it)
RECURSIVE Replace(_, _, _)
Replace(s, old, new) ==
    IF old = <<>> \/ Occurrences(s, old) = {} THEN s
    ELSE LET j == Min(Occurrences(s, old))
         IN SubSeq(s, 1, j - 1) \o new
            \o Replace(SubSeq(s, j + Len(old), Len(s)), old, new)

-----------------------------------------------------------------------------
(* match_placeholder: re.search(r'"{{\s*(\S+)\.(\w+)\s*}}"', line) *)

\* the position after the whitespace that starts at e: the \s* before }}"
CloseAfter(s, e) == e + RunIn(s, e, WhiteSpace)

\* MatchEndAt with the pattern's \.(\w+) left out: "{{\s*(\S+)\s*}}"
MatchEndAtNoExtension(s, i, p, k, d, m, q) ==
    IF /\ At(s, i) = Q /\ At(s, i + 1) = "{" /\ At(s, i + 2) = "{"
       /\ k >= 1 /\ k <= RunNotIn(s, p, WhiteSpace)
       /\ At(s, CloseAfter(s, p + k)) = "}"
       /\ At(s, CloseAfter(s, p + k) + 1) = "}"
       /\ At(s, CloseAfter(s, p + k) + 2) = Q
    THEN CloseAfter(s, p + k) + 2
    ELSE 0

\* The attempt that starts at position i and gives (\S+) exactly k
\* characters: the position of the closing quote, or 0 when it fails.
\* \s* and \w+ can only take their whole run: the token after each of them
\* cannot start with a character of the run.
\* i: the opening quote; p: the first character of (\S+); d: the dot;
\* m: the length of (\w+); q: the first closing brace
MatchEndAt(s, i, p, k, d, m, q) ==
    IF /\ At(s, i) = Q /\ At(s, i + 1) = "{" /\ At(s, i + 2) = "{"
       /\ k >= 1 /\ k <= RunNotIn(s, p, WhiteSpace)
       /\ At(s, d) = "."
       /\ m >= 1
       /\ At(s, q) = "}" /\ At(s, q + 1) = "}" /\ At(s, q + 2) = Q
    THEN q + 2
    ELSE 0

NameStart(s, i) == i + 3 + RunIn(s, i + 3, WhiteSpace)

ExtLen(s, d) == RunIn(s, d + 1, WordChars)

MatchEndFrom(s, i, p, k) ==
    MatchEndAt(s, i, p, k, p + k, ExtLen(s, p + k),
               CloseAfter(s, p + k + 1 + ExtLen(s, p + k)))

MatchEnd(s, i, k) == MatchEndFrom(s, i, NameStart(s, i), k)

\* re.search: the leftmost start, and for it the longest (\S+) (greedy,
\* backtracking from the longest)
\* the attempts <<i, k>> that succeed (one can only start at a quote)
Attempts(s) ==
    {c \in {i \in 1..Len(s) : s[i] = Q} \X (1..Len(s)) : MatchEnd(s, c[1], c[2]) # 0}

MatchObject(s, i, p, k, e, m) ==
    [found  |-> TRUE,
     start  |-> i,
     end    |-> e,
     group0 |-> SubSeq(s, i, e),
     group1 |-> SubSeq(s, p, p + k - 1),
     group2 |-> SubSeq(s, p + k + 1, p + k + m)]

MatchOf(s, i, p, k) ==
    MatchObject(s, i, p, k, MatchEndFrom(s, i, p, k), ExtLen(s, p + k))

LongestName(cands, i) == Max({c[2] : c \in {x \in cands : x[1] = i}})

FirstMatch(s, cands, i) == MatchOf(s, i, NameStart(s, i), LongestName(cands, i))

SearchIn(s, cands) ==
    IF cands = {} THEN [found |-> FALSE]
    ELSE FirstMatch(s, cands, Min({c[1] : c \in cands}))

Search(s) == SearchIn(s, Attempts(s))

Indentation(line) == LeadingWhiteSpace(line) + INDENTATION_SIZE

\* the dictionary match_placeholder returns, or None ([found |-> FALSE])
MatchDict(line, match) ==
    IF match.found
    THEN [found          |-> TRUE,
          line_truncated |-> Replace(line, match.group0, <<>>),
          file_name      |-> match.group1 \o <<".">> \o match.group2,
          indentation    |-> Indentation(line)]
    ELSE [found |-> FALSE]

match_placeholder(line) == MatchDict(line, Search(line))

-----------------------------------------------------------------------------
(* process_placeholder *)

LastIndexOf(s, c) ==
    IF \E j \in 1..Len(s) : s[j] = c
    THEN Max({j \in 1..Len(s) : s[j] = c})
    ELSE 0

\* os.path.splitext(p)[1]: from the last dot of the last path component,
\* unless only dots precede it in that component
SplitExtAt(p, sepIndex, dotIndex) ==
    IF /\ dotIndex > sepIndex
       /\ \E j \in (sepIndex + 1)..(dotIndex - 1) : p[j] # "."
    THEN SubSeq(p, dotIndex, Len(p))
    ELSE <<>>

SplitExt(p) == SplitExtAt(p, LastIndexOf(p, "/"), LastIndexOf(p, "."))

\* str.lstrip(".")
LStripDots(s) == SubSeq(s, RunIn(s, 1, {"."}) + 1, Len(s))

\* os.path.splitext(file_name)[1].lstrip(".")
FileExt(file_name) == LStripDots(SplitExt(file_name))

YAML == <<"y","a","m","l">>
YML == <<"y","m","l">>

\* IsYamlExt without .lower()
IsYamlExtCaseSensitive(file_ext) == file_ext \in {YAML, YML}

\* file_ext.lower() in ["yaml", "yml"]
IsYamlExt(file_ext) == Lower(file_ext) \in {YAML, YML}

\* IsEmptyContent without the whitespace test
IsEmptyContentNoLines(file_content) == file_content = <<>>

\* not file_content or all(line.strip() == "" for line in file_content)
IsEmptyContent(file_content) ==
    \/ file_content = <<>>
    \/ \A j \in 1..Len(file_content) : IsBlank(file_content[j])

\* EnsureTrailingNewline left out
EnsureTrailingNewlineSkipped(file_content) == file_content

\* if not file_content[-1].endswith("\n"): file_content[-1] += "\n"
EnsureTrailingNewline(file_content) ==
    IF EndsWith(file_content[Len(file_content)], <<NL>>) THEN file_content
    ELSE [file_content EXCEPT ![Len(file_content)] = @ \o <<NL>>]

DocStart == <<"-","-","-","\n">>

\* DropDocStart comparing with "---", which no line of a multi-line file equals
DropDocStartBare(file_content) ==
    IF file_content[1] = <<"-","-","-">> THEN Tail(file_content) ELSE file_content

\* if file_content[0] == "---\n": file_content = file_content[1:]
DropDocStart(file_content) ==
    IF file_content[1] = DocStart THEN Tail(file_content) ELSE file_content

\* (" " * indentation + line) if line.strip() else "\n"
FormatLine(indentation, line) ==
    IF ~IsBlank(line) THEN Spaces(indentation) \o line ELSE <<NL>>

FormatLines(indentation, file_content) ==
    [j \in 1..Len(file_content) |-> FormatLine(indentation, file_content[j])]

\* the single-line branch
SpliceSingle(line_truncated, file_content) ==
    <<Replace(line_truncated, <<NL>>, Replace(file_content[1], <<NL>>, <<>>) \o <<NL>>)>>

\* the YAML branch
ExpandYaml(line_truncated, indentation, file_content) ==
    <<line_truncated>> \o FormatLines(indentation, DropDocStart(file_content))

\* the plain-text branch
ExpandText(line_truncated, indentation, file_content) ==
    <<Replace(line_truncated, <<NL>>, <<"|", NL>>)>>
    \o FormatLines(indentation, file_content)

\* the multi-line branches, file_content[-1] already terminated
ExpandMulti(file_content, file_ext, line_truncated, indentation) ==
    IF IsYamlExt(file_ext)
    THEN ExpandYaml(line_truncated, indentation, file_content)
    ELSE ExpandText(line_truncated, indentation, file_content)

\* process_placeholder from the emptiness test on
ProcessContent(file_content, file_ext, line_truncated, indentation) ==
    IF IsEmptyContent(file_content)
    THEN [raised |-> "EmptyFileError", lines |-> <<>>]
    ELSE IF Len(file_content) = 1
    THEN [raised |-> "none", lines |-> SpliceSingle(line_truncated, file_content)]
    ELSE [raised |-> "none",
          lines  |-> ExpandMulti(EnsureTrailingNewline(file_content), file_ext,
                                 line_truncated, indentation)]

\* process_placeholder(root, file_name, line_truncated, indentation) where dir
\* is the directory root: the lines it returns, or the exception it raises
\* (read_file_content raises FileNotFoundError when the path does not exist)
process_placeholder(dir, file_name, line_truncated, indentation) ==
    IF file_name \notin DOMAIN dir
    THEN [raised |-> "FileNotFoundError", lines |-> <<>>]
    ELSE ProcessContent(dir[file_name], FileExt(file_name),
                        line_truncated, indentation)

Expansion(line, file_name, r) ==
    [raised  |-> r.raised,
     matched |-> TRUE,
     lines   |-> r.lines,
     reads   |-> <<file_name>>,
     scanned |-> <<line>>]

ExpandMatch(dir, line, match) ==
    IF match.found
    THEN Expansion(line, match.file_name,
                   process_placeholder(dir, match.file_name,
                                       match.line_truncated, match.indentation))
    ELSE [raised  |-> "none",
          matched |-> FALSE,
          lines   |-> <<line>>,
          reads   |-> <<>>,
          scanned |-> <<line>>]

\* ExpandLine feeding the lines of an expansion back to match_placeholder
RECURSIVE ExpandAll(_, _)
ExpandAll(dir, lines) ==
    IF lines = <<>>
    THEN [raised |-> "none", matched |-> TRUE, lines |-> <<>>,
          reads |-> <<>>, scanned |-> <<>>]
    ELSE IF ExpandMatch(dir, Head(lines), match_placeholder(Head(lines))).raised # "none"
    THEN ExpandMatch(dir, Head(lines), match_placeholder(Head(lines)))
    ELSE [raised  |-> ExpandAll(dir, Tail(lines)).raised,
          matched |-> TRUE,
          lines   |-> ExpandMatch(dir, Head(lines), match_placeholder(Head(lines))).lines
                      \o ExpandAll(dir, Tail(lines)).lines,
          reads   |-> ExpandMatch(dir, Head(lines), match_placeholder(Head(lines))).reads
                      \o ExpandAll(dir, Tail(lines)).reads,
          scanned |-> <<Head(lines)>> \o ExpandAll(dir, Tail(lines)).scanned]

Rescanned(r, inner) ==
    [raised  |-> inner.raised,
     matched |-> TRUE,
     lines   |-> inner.lines,
     reads   |-> r.reads \o inner.reads,
     scanned |-> r.scanned \o inner.scanned]

RescanOf(dir, r) ==
    IF r.matched /\ r.raised = "none" THEN Rescanned(r, ExpandAll(dir, r.lines)) ELSE r

ExpandLineRescanning(dir, line) ==
    RescanOf(dir, ExpandMatch(dir, line, match_placeholder(line)))

\* one iteration of generate_processed_content's loop on `line`: what it
\* appends, what it raises, the names it reads and the lines it scans
ExpandLine(dir, line) == ExpandMatch(dir, line, match_placeholder(line))

-----------------------------------------------------------------------------
(* Inputs: the source directory before the run *)

template_yaml == <<"t","e","m","p","l","a","t","e",".","y","a","m","l">>
v_txt == <<"v",".","t","x","t">>
m_txt == <<"m",".","t","x","t">>
spec_yaml == <<"s","p","e","c",".","y","a","m","l">>
S_YmL == <<"S",".","Y","m","L">>

\* the placeholder token "{{ name }}"
Tok(name) == <<Q, "{", "{", " ">> \o name \o <<" ", "}", "}", Q>>

\* template lines that end with a newline
TerminatedLines ==
    { <<"s","p","e","c",":",NL>>,                          \* no placeholder
      <<NL>>,                                              \* blank line
      <<"{","{"," ">> \o v_txt \o <<" ","}","}",NL>>,      \* no quotes
      <<Q,"{","{"," ","v"," ","}","}",Q,NL>>,              \* no extension
      <<" "," ">> \o Tok(spec_yaml) \o <<NL>>,
      <<"k",":"," ">> \o Tok(v_txt) \o <<" ","#",NL>>,     \* text after the token
      <<" ">> \o Tok(S_YmL) \o <<" ">> \o Tok(S_YmL) \o <<NL>> }  \* the same token twice

\* template lines without a newline: the last line of a file only
UnterminatedLines ==
    { <<"-"," ">> \o Tok(v_txt),
      <<" "," ">> \o Tok(spec_yaml) }

\* what list(file) can yield with at most n lines drawn from the two sets
RECURSIVE TerminatedSeqs(_, _)
TerminatedSeqs(n, T) ==
    IF n = 0 THEN {<<>>}
    ELSE TerminatedSeqs(n - 1, T)
         \cup {Append(x, l) : x \in {y \in TerminatedSeqs(n - 1, T) : Len(y) = n - 1},
                              l \in T}

FileContents(n, T, U) ==
    TerminatedSeqs(n, T)
    \cup {Append(x, l) : x \in TerminatedSeqs(n - 1, T), l \in U}

Templates == FileContents(MaxLines, TerminatedLines, UnterminatedLines)

\* lines of referenced files
TerminatedFileLines ==
    { Tok(m_txt) \o <<NL>>,          \* text that is itself a placeholder token
      <<" ",NL>>,                    \* whitespace only
      DocStart }

UnterminatedFileLines ==
    { <<"b">>,
      <<" ">> }

Contents == FileContents(MaxFileLines, TerminatedFileLines, UnterminatedFileLines)

\* a directory with a single-line text file and the YAML file of the
\* documented example; m.txt does not exist
FixtureDir ==
    (v_txt :> <<<<"h","e","l","l","o",NL>>>>)
    @@ (spec_yaml :> << DocStart,
                        <<"f","o","o",":"," ","b","a","r",NL>>,
                        <<"b","a","z",":"," ","1",NL>> >>)
    @@ (S_YmL :> << <<"a",NL>>, <<"b",NL>> >>)

WithFile(dir, name, content) ==
    [x \in DOMAIN dir \cup {name} |-> IF x = name THEN content ELSE dir[x]]

WithoutFile(dir, name) == [x \in DOMAIN dir \ {name} |-> dir[x]]

ReferencedNames(template) ==
    {match_placeholder(template[j]).file_name :
        j \in {i \in 1..Len(template) : Search(template[i]).found}}

\* the fixture directory, with one of the files the template references
\* replaced by any content, or removed
Directories(template) ==
    {FixtureDir}
    \cup {WithFile(FixtureDir, n, c) : n \in ReferencedNames(template), c \in Contents}
    \cup {WithoutFile(FixtureDir, n) : n \in ReferencedNames(template)}

\* text of the output file left by an earlier run
PreviousOutput == <<"o","l","d",NL>>

-----------------------------------------------------------------------------
(* process_templates *)

\* last, before the first loop iteration
NoIteration == [valid |-> FALSE, line |-> <<>>, before |-> 0,
                reads |-> <<>>, raised |-> "none"]

Init ==
    /\ \/ \E t \in Templates : \E d \in Directories(t) :
              files = WithFile(d, template_yaml, t)
       \/ files = FixtureDir
    /\ target_file = PreviousOutput
    /\ saved = 0
    /\ pc = "read"
    /\ yaml_content = <<>>
    /\ idx = 0
    /\ processed_lines = <<>>
    /\ raised = "none"
    /\ reads = <<>>
    /\ scanned = <<>>
    /\ last = NoIteration

\* yaml_content = read_file_content(template_path)
ReadTemplate ==
    /\ pc = "read"
    /\ template_yaml \in DOMAIN files
    /\ yaml_content' = files[template_yaml]
    /\ pc' = "loop"
    /\ UNCHANGED <<files, target_file, saved, idx, processed_lines, raised,
                   reads, scanned, last>>

\* read_file_content(template_path) raises FileNotFoundError
ReadTemplateMissing ==
    /\ pc = "read"
    /\ template_yaml \notin DOMAIN files
    /\ raised' = "FileNotFoundError"
    /\ pc' = "raised"
    /\ UNCHANGED <<files, target_file, saved, yaml_content, idx,
                   processed_lines, reads, scanned, last>>

\* last, after the iteration on `line` with outcome r: the line, the length
\* of processed_lines before it, the names it read and what it raised
Iteration(line, r) ==
    [valid |-> TRUE, line |-> line, before |-> Len(processed_lines),
     reads |-> r.reads, raised |-> r.raised]

\* a loop iteration on a line without placeholder: processed_lines.append(line)
AppendOf(line, r) ==
    /\ ~r.matched
    /\ r.raised = "none"
    /\ processed_lines' = processed_lines \o r.lines
    /\ reads' = reads \o r.reads
    /\ scanned' = scanned \o r.scanned
    /\ last' = Iteration(line, r)

AppendLine ==
    /\ pc = "loop"
    /\ idx < Len(yaml_content)
    /\ \E r \in {ExpandLine(files, yaml_content[idx + 1])} :
           AppendOf(yaml_content[idx + 1], r)
    /\ idx' = idx + 1
    /\ UNCHANGED <<files, target_file, saved, pc, yaml_content, raised>>

\* a loop iteration on a line with a placeholder:
\* processed_lines.extend(process_placeholder(root, **match))
ExtendOf(line, r) ==
    /\ r.matched
    /\ r.raised = "none"
    /\ processed_lines' = processed_lines \o r.lines
    /\ reads' = reads \o r.reads
    /\ scanned' = scanned \o r.scanned
    /\ last' = Iteration(line, r)

ExtendLines ==
    /\ pc = "loop"
    /\ idx < Len(yaml_content)
    /\ \E r \in {ExpandLine(files, yaml_content[idx + 1])} :
           ExtendOf(yaml_content[idx + 1], r)
    /\ idx' = idx + 1
    /\ UNCHANGED <<files, target_file, saved, pc, yaml_content, raised>>

\* a loop iteration in which process_placeholder raises: the exception leaves
\* generate_processed_content and process_templates, nothing catches it
RaiseOf(line, r) ==
    /\ r.raised # "none"
    /\ raised' = r.raised
    /\ reads' = reads \o r.reads
    /\ scanned' = scanned \o r.scanned
    /\ last' = Iteration(line, r)

\* RaiseInLoop writing what was processed so far before the exception leaves
RaiseInLoopSavingPartial ==
    /\ pc = "loop"
    /\ idx < Len(yaml_content)
    /\ \E r \in {ExpandLine(files, yaml_content[idx + 1])} :
           RaiseOf(yaml_content[idx + 1], r)
    /\ pc' = "raised"
    /\ target_file' = Concat(processed_lines)
    /\ UNCHANGED <<files, saved, yaml_content, idx, processed_lines>>

RaiseInLoop ==
    /\ pc = "loop"
    /\ idx < Len(yaml_content)
    /\ \E r \in {ExpandLine(files, yaml_content[idx + 1])} :
           RaiseOf(yaml_content[idx + 1], r)
    /\ pc' = "raised"
    /\ UNCHANGED <<files, target_file, saved, yaml_content, idx, processed_lines>>

\* the loop is over: save_yaml_template(processed_content, output_path)
Save ==
    /\ pc = "loop"
    /\ idx = Len(yaml_content)
    /\ target_file' = Concat(processed_lines)
    /\ saved' = saved + 1
    /\ pc' = "done"
    /\ UNCHANGED <<files, yaml_content, idx, processed_lines, raised, reads,
                   scanned, last>>

Next ==
    \/ ReadTemplate
    \/ ReadTemplateMissing
    \/ AppendLine
    \/ ExtendLines
    \/ RaiseInLoop
    \/ Save

Spec == Init /\ [][Next]_vars

-----------------------------------------------------------------------------
(* Vocabulary of the properties *)

\* the lines the last loop iteration appended to processed_lines
Emitted == SubSeq(processed_lines, last.before + 1, Len(processed_lines))

\* the placeholder located in the line of the last loop iteration, if any
Located ==
    IF last.valid
    THEN {m \in {Search(last.line)} : m.found}
    ELSE {}

\* the file name a located placeholder gives
NameOf(m) == m.group1 \o <<".">> \o m.group2

\* the content of the file a located placeholder names, if the file exists
FileOf(m) == IF NameOf(m) \in DOMAIN files THEN {files[NameOf(m)]} ELSE {}

\* the text after the located placeholder holds no further placeholder
OnlyOnePlaceholder(line, m) == ~Search(SubSeq(line, m.end + 1, Len(line))).found

\* `line` with the located placeholder replaced, where it stands, by `text`
InPlace(line, m, text) ==
    SubSeq(line, 1, m.start - 1) \o text \o SubSeq(line, m.end + 1, Len(line))

WithoutNewline(l) == IF EndsWith(l, <<NL>>) THEN SubSeq(l, 1, Len(l) - 1) ELSE l

WithNewline(l) == IF EndsWith(l, <<NL>>) THEN l ELSE l \o <<NL>>

SomeLineNotBlank(content) == \E j \in 1..Len(content) : ~IsBlank(content[j])

SingleLine(content) == Len(content) = 1 /\ SomeLineNotBlank(content)

MultiLine(content) == Len(content) >= 2 /\ SomeLineNotBlank(content)

\* the extension of a file name (the text after its last dot) is yaml or
\* yml, in any letter case
IsYamlName(name) ==
    Lower(SubSeq(name, LastIndexOf(name, ".") + 1, Len(name))) \in {YAML, YML}

\* a content line as the block is to carry it: indented by `width` spaces,
\* or a bare newline when blank
Indented(width, l) ==
    IF IsBlank(l) THEN <<NL>> ELSE Spaces(width) \o WithNewline(l)

\* the block for a template line: its leading whitespace plus 2
IndentedBlock(line, content) ==
    [j \in 1..Len(content) |-> Indented(LeadingWhiteSpace(line) + 2, content[j])]

\* w is a name without whitespace, a dot and word characters
IsNameDotExt(w) ==
    /\ \A j \in 1..Len(w) : w[j] \notin WhiteSpace
    /\ \E d \in 2..(Len(w) - 1) :
           /\ w[d] = "."
           /\ \A j \in (d + 1)..Len(w) : w[j] \in WordChars

Trimmed(w) ==
    SubSeq(w, RunIn(w, 1, WhiteSpace) + 1,
           Max({0} \cup {j \in 1..Len(w) : w[j] \notin WhiteSpace}))

\* t is a placeholder token: quote, two braces, optional whitespace, a name
\* without whitespace, a dot, word characters, optional whitespace, two
\* braces, quote
IsToken(t) ==
    /\ Len(t) >= 9
    /\ SubSeq(t, 1, 3) = <<Q, "{", "{">>
    /\ SubSeq(t, Len(t) - 2, Len(t)) = <<"}", "}", Q>>
    /\ IsNameDotExt(Trimmed(SubSeq(t, 4, Len(t) - 3)))

HasPlaceholderShape(line) ==
    \E i \in {x \in 1..Len(line) : line[x] = Q} :
        \E j \in {x \in 1..Len(line) : line[x] = Q} :
            i < j /\ IsToken(SubSeq(line, i, j))

Contains(s, t) == Occurrences(s, t) # {}

NameIfFound(m) == IF m.found THEN <<NameOf(m)>> ELSE <<>>

\* the names of the placeholders located in `lines`, in order
RECURSIVE NamesIn(_)
NamesIn(lines) ==
    IF lines = <<>> THEN <<>>
    ELSE NameIfFound(Search(Head(lines))) \o NamesIn(Tail(lines))

-----------------------------------------------------------------------------
(* Properties *)

\* C1 (as claimed): a single-line, non-blank referenced file is spliced in
\* where the placeholder stood: the iteration appends exactly one line, the
\* template line with the token replaced in place by the file line without
\* its newline, all other text and the terminator (or its absence) kept.
C1_SplicedInPlace ==
    \A m \in Located : \A content \in FileOf(m) :
        (OnlyOnePlaceholder(last.line, m) /\ SingleLine(content))
        => /\ last.raised = "none"
           /\ Emitted = <<InPlace(last.line, m, WithoutNewline(content[1]))>>

\* C2 (as claimed): for a multi-line referenced file that is not yaml/yml,
\* the first line appended ends with "|" and a newline, whether or not the
\* template line had a terminator, and the content lines follow, each
\* indented by the template line's leading whitespace plus 2 or a bare
\* newline when blank.
C2_BlockScalar ==
    \A m \in Located : \A content \in FileOf(m) :
        (MultiLine(content) /\ ~IsYamlName(NameOf(m)))
        => /\ last.raised = "none"
           /\ Len(Emitted) = Len(content) + 1
           /\ EndsWith(Emitted[1], <<"|", NL>>)
           /\ Tail(Emitted) = IndentedBlock(last.line, content)

\* the documented example: the template "spec:" / '  "{{ spec.yaml }}"' (its
\* last line with or without terminator) and spec.yaml holding
\* "---" / "foo: bar" / "baz: 1", processed to the end
InScenario3 ==
    /\ pc = "done"
    /\ spec_yaml \in DOMAIN files
    /\ files[spec_yaml] = << DocStart,
                             <<"f","o","o",":"," ","b","a","r",NL>>,
                             <<"b","a","z",":"," ","1",NL>> >>
    /\ Len(yaml_content) = 2
    /\ yaml_content[1] = <<"s","p","e","c",":",NL>>
    /\ WithNewline(yaml_content[2]) = <<" "," ">> \o Tok(spec_yaml) \o <<NL>>

C4_YamlNested ==
    \A m \in Located : \A content \in FileOf(m) :
        (MultiLine(content) /\ IsYamlName(NameOf(m)))
        => /\ last.raised = "none"
           /\ Emitted[1] = MatchDict(last.line, m).line_truncated
           /\ Tail(Emitted) =
                  IndentedBlock(last.line,
                                IF content[1] = DocStart THEN Tail(content) ELSE content)

\* a file with extension YmL that starts with "---" was expanded
C4_Witness ==
    \E m \in Located : \E content \in FileOf(m) :
        /\ NameOf(m) = S_YmL
        /\ MultiLine(content)
        /\ content[1] = DocStart
        /\ Len(Emitted) = Len(content)

\* C5 (as claimed): the remainder match_placeholder returns is the line with
\* exactly the one matched substring deleted; every other character,
\* further identical tokens included, stays.
C5_OnlyFirstDeleted ==
    \A m \in Located :
        MatchDict(last.line, m).line_truncated = InPlace(last.line, m, <<>>)

C7_EmptyOrMissing ==
    \A m \in Located :
        /\ \A content \in FileOf(m) :
               ~SomeLineNotBlank(content)
               => /\ last.raised = "EmptyFileError"
                  /\ raised = "EmptyFileError"
                  /\ Emitted = <<>>
        /\ FileOf(m) = {}
           => /\ last.raised = "FileNotFoundError"
              /\ raised = "FileNotFoundError"
              /\ Emitted = <<>>

\* a yaml file holding only blank lines was referenced
C7_Witness ==
    \E m \in Located : \E content \in FileOf(m) :
        /\ IsYamlName(NameOf(m))
        /\ content # <<>>
        /\ ~SomeLineNotBlank(content)
        /\ raised = "EmptyFileError"

\* C8: once an exception has left the loop, save_yaml_template has not been
\* called and the output file is what it was before the run; the file is
\* written only after every line of the template went through the loop.
C8_NoPartialOutput ==
    /\ raised # "none"
       => /\ pc = "raised"
          /\ saved = 0
          /\ target_file = PreviousOutput
    /\ saved > 0
       => /\ raised = "none"
          /\ idx = Len(yaml_content)
          /\ Len(scanned) = Len(yaml_content)
          /\ target_file = Concat(processed_lines)

\* a placeholder failed after an earlier one had been expanded
C8_Witness ==
    /\ raised \in {"FileNotFoundError", "EmptyFileError"}
    /\ last.valid
    /\ idx >= 1
    /\ Len(reads) >= 2
    /\ processed_lines # <<>>
    /\ saved = 0

\* a token inside `content` is text of what was appended, unless the
\* content is a single line spliced into a line without terminator, of
\* which nothing is appended
TokensKept(content) ==
    \A j \in 1..Len(content) : \A t \in {Search(content[j])} :
        t.found
        => \/ Contains(Concat(Emitted), t.group0)
           \/ Len(content) = 1 /\ ~EndsWith(last.line, <<NL>>)

C10_ContentTerminated ==
    \A m \in Located : \A content \in FileOf(m) :
        MultiLine(content)
        => /\ Len(Emitted) >= 2
           /\ \A j \in 2..Len(Emitted) : EndsWith(Emitted[j], <<NL>>)
           /\ EndsWith(processed_lines[Len(processed_lines)], <<NL>>)

\* a file whose last line has no terminator was expanded and a template
\* line follows
C10_Witness ==
    /\ pc = "loop"
    /\ idx < Len(yaml_content)
    /\ \E m \in Located : \E content \in FileOf(m) :
           /\ MultiLine(content)
           /\ ~EndsWith(content[Len(content)], <<NL>>)

====
